---- MODULE Spec2Model ----
(***************************************************************************)
(* Compositional statistics of Paolino-2023/comp_stats_notebook.ipynb:     *)
(* the zero adjustment (adjust_values), the ILR loop that fills ilr_dfs,   *)
(* and the bootstrap of the log ratio of geometric means per layer.        *)
(*                                                                         *)
(* Proportions are exact rationals held as integers in units of 1/600000,  *)
(* so 1.0 is 600000 and small_value (0.0001) is 60.  60 is a multiple of   *)
(* every count of nonzero entries up to 6, so total_added / n is exact.    *)
(***************************************************************************)
EXTENDS Integers, Sequences, FiniteSets

VARIABLES
  series,         \* adjust_values: the sequence handed in
  adjusted,       \* adjust_values(series)
  readjusted,     \* adjust_values(adjusted)
  apc,            \* "idle" | "start" | "adjusted" | "readjusted" | "raised"
  comp_df,        \* the table: rows [Species, Cortex, Layer, Prop_Ctx]
  prop_cells_reg, \* the column comp_df['prop_cells_reg'], <<>> before it is set
  ilr_dfs,        \* the dict of lists the ILR loop fills
  ilr_i,          \* groups the ILR loop has taken
  ilr_table,      \* pd.DataFrame(ilr_dfs), <<>> before it is built
  raised,         \* the exception that ended the cell, "none" if none
  layer,          \* the bootstrap loop's variable, "none" before the loop
  layer_i,        \* layers the bootstrap loop has finished
  boot_data,      \* the last resample calc_log_ratio drew
  boot_results,   \* the statistics of the layer in hand
  results,        \* boot_results of each finished layer, in layer order
  results_df,     \* results after dropna, column by column
  summary,        \* means, ci_lower, ci_upper, column by column
  pc              \* "idle" | "loaded" | "adjusted" | "ilr_done" | "ilr_error"
                  \* | "aggregated"

adjust_vars == <<series, adjusted, readjusted, apc>>
ilr_vars == <<ilr_dfs, ilr_i, ilr_table>>
boot_vars == <<layer, layer_i, boot_data, boot_results, results, results_df,
               summary>>
pipe_vars == <<comp_df, prop_cells_reg, ilr_dfs, ilr_i, ilr_table, raised, pc,
               layer, layer_i, boot_data, boot_results, results, results_df,
               summary>>
vars == <<series, adjusted, readjusted, apc,
          comp_df, prop_cells_reg, ilr_dfs, ilr_i, ilr_table, raised, pc,
          layer, layer_i, boot_data, boot_results, results, results_df,
          summary>>

\* Longest sequence handed to adjust_values.
MaxLen == 4

\* small_value = 0.0001, in units of 1/600000.
small_value == 60

\* Proportions in [0,1]: 0, 0.00005, 0.0001, 0.25, 0.5.
Props == {0, 30, 60, 150000, 300000}

RECURSIVE SumSeq(_)
SumSeq(s) == IF s = <<>> THEN 0 ELSE Head(s) + SumSeq(Tail(s))

\* zero_values = series == 0
zero_values(s) == [i \in 1..Len(s) |-> s[i] = 0]

\* mask.sum()
MaskSum(mask) == Cardinality({i \in DOMAIN mask : mask[i]})

\* (~zero_values)
NotMask(mask) == [i \in DOMAIN mask |-> ~mask[i]]

\* series[mask] += d
AddWhere(s, mask, d) == [i \in 1..Len(s) |-> IF mask[i] THEN s[i] + d ELSE s[i]]

\* Plausible slips of adjust_values.
\* Divides the added total by the length of the series.
adjust_values_divlen(s) ==
  LET zv == zero_values(s)
      s1 == AddWhere(s, zv, small_value)
      total_added == small_value * MaskSum(zv)
  IN IF MaskSum(NotMask(zv)) > 0
       THEN AddWhere(s1, NotMask(zv), 0 - (total_added \div Len(s)))
       ELSE s1

\* Tests for nonzero values before adding anything.
adjust_values_guardfirst(s) ==
  LET zv == zero_values(s)
      total_added == small_value * MaskSum(zv)
  IN IF MaskSum(NotMask(zv)) > 0
       THEN AddWhere(AddWhere(s, zv, small_value), NotMask(zv),
                     0 - (total_added \div MaskSum(NotMask(zv))))
       ELSE s

\* Takes the nonzero mask after the zeros were raised.
adjust_values_latemask(s) ==
  LET zv == zero_values(s)
      s1 == AddWhere(s, zv, small_value)
      total_added == small_value * MaskSum(zv)
      nz == NotMask(zero_values(s1))
  IN IF MaskSum(nz) > 0
       THEN AddWhere(s1, nz, 0 - (total_added \div MaskSum(nz)))
       ELSE s1

\* def adjust_values(series)
adjust_values(s) ==
  LET zv == zero_values(s)
      s1 == AddWhere(s, zv, small_value)
      total_added == small_value * MaskSum(zv)
  IN IF MaskSum(NotMask(zv)) > 0
       THEN AddWhere(s1, NotMask(zv), 0 - (total_added \div MaskSum(NotMask(zv))))
       ELSE s1

AdjustInputs == UNION {[1..n -> Props] : n \in 1..MaxLen}

EmptyIlrDfs ==
  [Species |-> <<>>, Cortex |-> <<>>,
   ILR_p1 |-> <<>>, ILR_p2 |-> <<>>, ILR_p3 |-> <<>>, ILR_p4 |-> <<>>]

IdleBoot ==
  /\ layer = "none"
  /\ layer_i = 0
  /\ boot_data = <<>>
  /\ boot_results = <<>>
  /\ results = <<>>
  /\ results_df = <<>>
  /\ summary = <<>>

IdlePipeline ==
  /\ IdleBoot
  /\ comp_df = <<>>
  /\ prop_cells_reg = <<>>
  /\ ilr_dfs = EmptyIlrDfs
  /\ ilr_i = 0
  /\ ilr_table = <<>>
  /\ raised = "none"
  /\ pc = "idle"

IdleAdjust ==
  /\ series = <<>>
  /\ adjusted = <<>>
  /\ readjusted = <<>>
  /\ apc = "idle"

InitAdjust ==
  /\ series \in AdjustInputs
  /\ adjusted = <<>>
  /\ readjusted = <<>>
  /\ apc = "start"
  /\ IdlePipeline

\* adjust_values applied to a group; it has no raise statement.
Adjust ==
  /\ apc = "start"
  /\ adjusted' = adjust_values(series)
  /\ apc' = "adjusted"
  /\ UNCHANGED <<series, readjusted>>
  /\ UNCHANGED pipe_vars

\* adjust_values applied to its own result.
Readjust ==
  /\ apc = "adjusted"
  /\ readjusted' = adjust_values(adjusted)
  /\ apc' = "readjusted"
  /\ UNCHANGED <<series, adjusted>>
  /\ UNCHANGED pipe_vars

NextAdjust == Adjust \/ Readjust

SpecAdjust == InitAdjust /\ [][NextAdjust]_vars

(***************************************************************************)
(* The table and the ILR loop.                                             *)
(***************************************************************************)

\* Most (Species, Cortex) groups in a table.
MaxGroups == 2

\* The (Species, Cortex) keys in the order the rows come in the sheet.
SheetKeys ==
  <<<<"Ms", "Ctx1">>, <<"FTD", "Ctx1">>, <<"Ms", "Ctx2">>, <<"FTD", "Ctx2">>>>

\* The same keys in the sorted order groupby yields them.
SortedKeys ==
  <<<<"FTD", "Ctx1">>, <<"FTD", "Ctx2">>, <<"Ms", "Ctx1">>, <<"Ms", "Ctx2">>>>

LayerNames == <<"L1", "L2", "L3", "L4", "L5", "L6">>

\* Prop_Ctx of one group, layer by layer, each summing to 1 but the last:
\* no zero; two zeros; a nonzero entry equal to, and one below, the amount
\* subtracted; four parts; six parts; all zero.
Compositions ==
  { <<120000, 120000, 120000, 120000, 120000>>,
    <<300000, 180000, 120000, 0, 0>>,
    <<15, 0, 199995, 199995, 199995>>,
    <<30, 0, 0, 299985, 299985>>,
    <<150000, 150000, 150000, 150000>>,
    <<100000, 100000, 100000, 100000, 100000, 100000>>,
    <<0, 0, 0, 0, 0>> }

RECURSIVE Flatten(_)
Flatten(ss) == IF ss = <<>> THEN <<>> ELSE Head(ss) \o Flatten(Tail(ss))

\* The rows of one group.
GroupRows(key, c) ==
  [i \in 1..Len(c) |->
     [Species |-> key[1], Cortex |-> key[2], Layer |-> LayerNames[i],
      Prop_Ctx |-> c[i]]]

IlrTables ==
  UNION { { Flatten([g \in 1..k |-> GroupRows(SheetKeys[g], cs[g])]) :
            cs \in [1..k -> Compositions] } : k \in 1..MaxGroups }

KeyOf(row) == <<row.Species, row.Cortex>>

\* The positions in df of the rows whose key is `key`, in row order.
RECURSIVE RowsOf(_, _, _)
RowsOf(df, key, i) ==
  IF i > Len(df) THEN <<>>
  ELSE (IF KeyOf(df[i]) = key THEN <<i>> ELSE <<>>) \o RowsOf(df, key, i + 1)

\* groupby(['Species','Cortex']): the keys present, sorted.
GroupKeys(df) ==
  SelectSeq(SortedKeys, LAMBDA k : \E i \in 1..Len(df) : KeyOf(df[i]) = k)

\* One column of one group.
GroupValues(df, col, key) ==
  LET idx == RowsOf(df, key, 1) IN [j \in 1..Len(idx) |-> col[idx[j]]]

\* groupby(['Species','Cortex'])['Prop_Ctx'].transform(adjust_values)
TransformAdjust(df) ==
  [i \in 1..Len(df) |->
     LET idx == RowsOf(df, KeyOf(df[i]), 1)
         out == adjust_values([j \in 1..Len(idx) |-> df[idx[j]].Prop_Ctx])
     IN out[CHOOSE j \in 1..Len(idx) : idx[j] = i]]

\* An ILR coordinate.  Coordinate i of the default basis is, up to its sign
\* and the factor sqrt(i/(i+1)), ln(gm(x[1..i]) / x[i+1]); it is held as the
\* parts it is computed from.  A coordinate computed from a zero part is not
\* finite (log 0).
Coordinate(x, i) == [finite |-> TRUE, pos |-> SubSeq(x, 1, i), neg |-> x[i + 1]]
NonFinite == [finite |-> FALSE, pos |-> <<>>, neg |-> 0]

\* ilr(x) of skbio.stats.composition, by its outcomes: closure() raises
\* ValueError for a negative part; a zero part passes closure() in the
\* releases of the notebook's time and gives coordinates that are not
\* finite, and is refused by a release that validates; m positive parts
\* give m - 1 coordinates.
ilr(x) ==
  IF \E i \in 1..Len(x) : x[i] < 0
    THEN {[error |-> "ValueError", coords |-> <<>>]}
  ELSE IF \E i \in 1..Len(x) : x[i] = 0
    THEN {[error |-> "ValueError", coords |-> <<>>],
          [error |-> "none", coords |-> [i \in 1..(Len(x) - 1) |-> NonFinite]]}
  ELSE {[error |-> "none", coords |-> [i \in 1..(Len(x) - 1) |-> Coordinate(x, i)]]}

\* Stores the third coordinate twice.
AppendCoords_repeat(dfs, c) ==
  [dfs EXCEPT !.ILR_p1 = IF Len(c) >= 1 THEN Append(@, c[1]) ELSE @,
              !.ILR_p2 = IF Len(c) >= 2 THEN Append(@, c[2]) ELSE @,
              !.ILR_p3 = IF Len(c) >= 3 THEN Append(@, c[3]) ELSE @,
              !.ILR_p4 = IF Len(c) >= 4 THEN Append(@, c[3]) ELSE @]

\* ilr_dfs['ILR_p1'].append(c[0]) ... ilr_dfs['ILR_p4'].append(c[3]): the
\* appends made before an index is out of range.
AppendCoords(dfs, c) ==
  [dfs EXCEPT !.ILR_p1 = IF Len(c) >= 1 THEN Append(@, c[1]) ELSE @,
              !.ILR_p2 = IF Len(c) >= 2 THEN Append(@, c[2]) ELSE @,
              !.ILR_p3 = IF Len(c) >= 3 THEN Append(@, c[3]) ELSE @,
              !.ILR_p4 = IF Len(c) >= 4 THEN Append(@, c[4]) ELSE @]

\* ilr_dfs['Species'].append(name[0]); ilr_dfs['Cortex'].append(name[1])
AppendName(dfs, name) ==
  [dfs EXCEPT !.Species = Append(@, name[1]), !.Cortex = Append(@, name[2])]

\* pd.DataFrame(ilr_dfs)
DataFrame(dfs) ==
  [k \in 1..Len(dfs.Species) |->
     [Species |-> dfs.Species[k], Cortex |-> dfs.Cortex[k],
      coords |-> <<dfs.ILR_p1[k], dfs.ILR_p2[k], dfs.ILR_p3[k], dfs.ILR_p4[k]>>]]

InitIlr ==
  /\ IdleAdjust
  /\ comp_df \in IlrTables
  /\ prop_cells_reg = <<>>
  /\ ilr_dfs = EmptyIlrDfs
  /\ ilr_i = 0
  /\ ilr_table = <<>>
  /\ raised = "none"
  /\ pc = "loaded"
  /\ IdleBoot

\* comp_df['prop_cells_reg'] = ...transform(adjust_values)
Transform ==
  /\ pc = "loaded"
  /\ prop_cells_reg' = TransformAdjust(comp_df)
  /\ pc' = "adjusted"
  /\ UNCHANGED <<comp_df, raised>>
  /\ UNCHANGED ilr_vars
  /\ UNCHANGED boot_vars
  /\ UNCHANGED adjust_vars

\* One turn of the loop over comp_df.groupby(['Species','Cortex']).
IlrStep ==
  /\ pc = "adjusted"
  /\ ilr_i < Len(GroupKeys(comp_df))
  /\ LET name == GroupKeys(comp_df)[ilr_i + 1]
         prop_by_ctxandlayer == GroupValues(comp_df, prop_cells_reg, name)
         named == AppendName(ilr_dfs, name)
     IN \E out \in ilr(prop_by_ctxandlayer) :
          IF out.error # "none"
            THEN /\ ilr_dfs' = named
                 /\ raised' = out.error
                 /\ pc' = "ilr_error"
                 /\ UNCHANGED ilr_i
          ELSE IF Len(out.coords) < 4
            THEN /\ ilr_dfs' = AppendCoords(named, out.coords)
                 /\ raised' = "IndexError"
                 /\ pc' = "ilr_error"
                 /\ UNCHANGED ilr_i
          ELSE /\ ilr_dfs' = AppendCoords(named, out.coords)
               /\ ilr_i' = ilr_i + 1
               /\ UNCHANGED <<raised, pc>>
  /\ UNCHANGED <<comp_df, prop_cells_reg, ilr_table>>
  /\ UNCHANGED boot_vars
  /\ UNCHANGED adjust_vars

\* ilr_dfs = pd.DataFrame(ilr_dfs), once the loop has taken every group.
BuildFrame ==
  /\ pc = "adjusted"
  /\ ilr_i = Len(GroupKeys(comp_df))
  /\ ilr_table' = DataFrame(ilr_dfs)
  /\ pc' = "ilr_done"
  /\ UNCHANGED <<comp_df, prop_cells_reg, ilr_dfs, ilr_i, raised>>
  /\ UNCHANGED boot_vars
  /\ UNCHANGED adjust_vars

NextIlr == Transform \/ IlrStep \/ BuildFrame

SpecIlr == InitIlr /\ [][NextIlr]_vars

(***************************************************************************)
(* The bootstrap of the log ratio of geometric means.                      *)
(*                                                                         *)
(* The proportions of these tables are 1/2^k, so their logarithms are      *)
(* exact: a logarithm is an integer in units of ln(2)/12, and 12 is a      *)
(* multiple of every row count of a resample.  A positive real is held by  *)
(* its logarithm, a float as [nan, v].                                     *)
(***************************************************************************)

\* Resamples per layer (range(5000)).
NBoot == 2

NaN == [nan |-> TRUE, v |-> 0]
Float(x) == [nan |-> FALSE, v |-> x]

\* The rows of one layer as [Species, Cortex, Prop_Ctx]: both species; both
\* species with two 'Ms' rows; no 'FTD' row.
Strata ==
  { << <<"Ms", "Ctx1", 300000>>, <<"FTD", "Ctx1", 150000>> >>,
    << <<"Ms", "Ctx1", 300000>>, <<"Ms", "Ctx2", 150000>>,
       <<"FTD", "Ctx1", 75000>> >>,
    << <<"Ms", "Ctx1", 300000>>, <<"Ms", "Ctx2", 150000>> >> }

StratumRows(lname, st) ==
  [i \in 1..Len(st) |->
     [Species |-> st[i][1], Cortex |-> st[i][2], Layer |-> lname,
      Prop_Ctx |-> st[i][3]]]

BootTables ==
  { StratumRows("L1", a) \o StratumRows("L2", b) : a \in Strata, b \in Strata }

\* comp_df['Layer'].unique(): the layers in order of first appearance.
RECURSIVE Unique(_, _)
Unique(df, i) ==
  IF i = 0 THEN <<>>
  ELSE LET u == Unique(df, i - 1)
       IN IF \E j \in 1..Len(u) : u[j] = df[i].Layer THEN u
          ELSE Append(u, df[i].Layer)

Layers(df) == Unique(df, Len(df))

\* The rows of comp_df with their index and their prop_cells_reg.
RowsWithIndex(df, col) ==
  [i \in 1..Len(df) |->
     [idx |-> i, Species |-> df[i].Species, Layer |-> df[i].Layer,
      prop_cells_reg |-> col[i]]]

\* Hands every row of the table to calc_log_ratio.
LayerData_all(df, col, l) == RowsWithIndex(df, col)

\* layer_data = comp_df[comp_df['Layer'] == layer]
LayerData(df, col, l) ==
  SelectSeq(RowsWithIndex(df, col), LAMBDA r : r.Layer = l)

\* data.sample(n=len(data), replace=True): every draw it can make.
Sample(data) ==
  { [j \in 1..Len(data) |-> data[ix[j]]] :
      ix \in [1..Len(data) -> 1..Len(data)] }

\* np.log of a proportion 1/2^k, k in 0..6.
np_log(p) == 0 - 12 * (CHOOSE k \in 0..6 : p * (2 ^ k) = 600000)

RECURSIVE SumLog(_)
SumLog(rows) ==
  IF rows = <<>> THEN 0
  ELSE np_log(Head(rows).prop_cells_reg) + SumLog(Tail(rows))

\* np.exp(np.mean(np.log(rows['prop_cells_reg']))): the geometric mean, held
\* by its logarithm; the mean of no rows is NaN.
GeoMean(rows) ==
  IF rows = <<>> THEN NaN ELSE Float(SumLog(rows) \div Len(rows))

\* np.log(gm_mm / gm_sc)
LogRatio(gm_mm, gm_sc) ==
  IF gm_mm.nan \/ gm_sc.nan THEN NaN ELSE Float(gm_mm.v - gm_sc.v)

\* calc_log_ratio, from the resample on.
calc_log_ratio(boot) ==
  LET Mm == SelectSeq(boot, LAMBDA r : r.Species = "Ms")
      Sc == SelectSeq(boot, LAMBDA r : r.Species = "FTD")
  IN LogRatio(GeoMean(Mm), GeoMean(Sc))

\* results_df = pd.DataFrame(results).dropna(): the rows (iterations) with
\* no NaN in any column.
KeptRows(res) ==
  {r \in 1..NBoot : \A c \in 1..Len(res) : ~res[c][r].nan}

RECURSIVE Pick(_, _, _)
Pick(col, keep, r) ==
  IF r > Len(col) THEN <<>>
  ELSE (IF r \in keep THEN <<col[r].v>> ELSE <<>>) \o Pick(col, keep, r + 1)

DropNa(res) == [c \in 1..Len(res) |-> Pick(res[c], KeptRows(res), 1)]

RECURSIVE Insert(_, _)
Insert(x, s) ==
  IF s = <<>> THEN <<x>>
  ELSE IF x <= Head(s) THEN <<x>> \o s
  ELSE <<Head(s)>> \o Insert(x, Tail(s))

RECURSIVE Sort(_)
Sort(s) == IF s = <<>> THEN <<>> ELSE Insert(Head(s), Sort(Tail(s)))

\* results_df.mean(): a column's sum over its count, NaN for no rows.
Mean(xs) ==
  IF xs = <<>> THEN [nan |-> TRUE, sum |-> 0, n |-> 0]
  ELSE [nan |-> FALSE, sum |-> SumSeq(xs), n |-> Len(xs)]

\* np.percentile(xs, q) for q = q1000 / 10, by linear interpolation, times
\* 1000; NaN for no rows.
Percentile(xs, q1000) ==
  IF xs = <<>> THEN NaN
  ELSE LET s == Sort(xs)
           pos == q1000 * (Len(xs) - 1)
           lo == pos \div 1000
           f == pos % 1000
           hi == IF lo + 1 < Len(xs) THEN lo + 1 ELSE lo
       IN Float(s[lo + 1] * (1000 - f) + s[hi + 1] * f)

Summarise(df) ==
  [c \in 1..Len(df) |->
     [mean |-> Mean(df[c]),
      ci_lower |-> Percentile(df[c], 25),
      ci_upper |-> Percentile(df[c], 975)]]

InitBoot ==
  /\ IdleAdjust
  /\ comp_df \in BootTables
  /\ prop_cells_reg = <<>>
  /\ ilr_dfs = EmptyIlrDfs
  /\ ilr_i = 0
  /\ ilr_table = <<>>
  /\ raised = "none"
  /\ pc = "loaded"
  /\ IdleBoot

\* One call of calc_log_ratio(layer_data) in the loop over the layers; the
\* last call for a layer stores results[layer].
BootIter ==
  /\ pc = "adjusted"
  /\ layer_i < Len(Layers(comp_df))
  /\ LET l == Layers(comp_df)[layer_i + 1]
         layer_data == LayerData(comp_df, prop_cells_reg, l)
         sofar == IF layer = l THEN boot_results ELSE <<>>
     IN \E boot \in Sample(layer_data) :
          LET now == Append(sofar, calc_log_ratio(boot))
          IN /\ layer' = l
             /\ boot_data' = boot
             /\ boot_results' = now
             /\ IF Len(now) = NBoot
                  THEN /\ results' = Append(results, now)
                       /\ layer_i' = layer_i + 1
                  ELSE UNCHANGED <<results, layer_i>>
  /\ UNCHANGED <<comp_df, prop_cells_reg, raised, pc, results_df, summary>>
  /\ UNCHANGED ilr_vars
  /\ UNCHANGED adjust_vars

\* results_df, means, ci_lower and ci_upper, once every layer is done.
Aggregate ==
  /\ pc = "adjusted"
  /\ layer_i = Len(Layers(comp_df))
  /\ results_df' = DropNa(results)
  /\ summary' = Summarise(DropNa(results))
  /\ pc' = "aggregated"
  /\ UNCHANGED <<comp_df, prop_cells_reg, raised, layer, layer_i, boot_data,
                 boot_results, results>>
  /\ UNCHANGED ilr_vars
  /\ UNCHANGED adjust_vars

NextBoot == Transform \/ BootIter \/ Aggregate

SpecBoot == InitBoot /\ [][NextBoot]_vars

ZeroCount(s) == MaskSum(zero_values(s))
NonzeroCount(s) == Len(s) - ZeroCount(s)

\* C1: for a group with at least one nonzero entry the adjusted sequence
\* sums to exactly the input's total, whatever the number of zeros.
C1_SumPreserved ==
  (apc # "start" /\ NonzeroCount(series) > 0)
    => SumSeq(adjusted) = SumSeq(series)

C1_Witness ==
  /\ apc = "adjusted"
  /\ ZeroCount(series) >= 2
  /\ NonzeroCount(series) >= 2
  /\ adjusted # series

AllZero(s) == NonzeroCount(s) = 0

C3_Claim ==
  (apc # "start" /\ NonzeroCount(series) > 0
     /\ \A i \in 1..Len(series) : series[i] >= 0 /\ series[i] <= 600000)
    => \A i \in 1..Len(adjusted) : adjusted[i] > 0

\* C9: same length and order; an entry that was zero becomes small_value, an
\* entry that was nonzero loses small_value * z / n; with no zero the
\* sequence is returned unchanged.
C9_ClosedForm ==
  (apc # "start" /\ NonzeroCount(series) > 0)
    => /\ Len(adjusted) = Len(series)
       /\ \A i \in 1..Len(series) :
            /\ series[i] = 0 => adjusted[i] = small_value
            /\ series[i] # 0 =>
                 adjusted[i] * NonzeroCount(series)
                   = series[i] * NonzeroCount(series)
                       - small_value * ZeroCount(series)
       /\ ZeroCount(series) = 0 => adjusted = series

C9_Witness ==
  /\ apc = "adjusted"
  /\ ZeroCount(series) >= 1
  /\ NonzeroCount(series) >= 2
  /\ \E i \in 1..Len(series) : series[i] # 0 /\ adjusted[i] < series[i]
  /\ \E i \in 1..Len(series) : series[i] = 0 /\ adjusted[i] = small_value

\* C10 as stated: adjust_values applied to its own output returns that
\* output unchanged, for every input with at least one nonzero entry.
C10_Claim ==
  (apc = "readjusted" /\ NonzeroCount(series) > 0)
    => readjusted = adjusted

(***************************************************************************)
(* The ILR loop's claims, under SpecIlr.                                   *)
(***************************************************************************)

\* The composition the loop hands to ilr for the k-th group.
Handed(k) == GroupValues(comp_df, prop_cells_reg, GroupKeys(comp_df)[k])

\* The loop has taken the k-th group: its name is in ilr_dfs.
Taken(k) == pc # "loaded" /\ Len(ilr_dfs.Species) >= k

\* C6 as stated: a composition with a zero or negative entry that reaches
\* the transform step makes the step signal an error and leaves no
\* coordinates of that group in ilr_dfs.
C6_Claim ==
  \A k \in 1..Len(GroupKeys(comp_df)) :
    (Taken(k) /\ \E i \in 1..Len(Handed(k)) : Handed(k)[i] <= 0)
      => /\ pc = "ilr_error"
         /\ raised # "none"
         /\ Len(ilr_dfs.ILR_p1) < k

\* C7 as stated: one row per group, and the row of a group of m parts holds
\* the m - 1 coordinates of the transform, none dropped.
C7_Original ==
  pc = "ilr_done"
    => /\ Len(ilr_table) = Len(GroupKeys(comp_df))
       /\ \A k \in 1..Len(ilr_table) :
            \E out \in ilr(Handed(k)) :
              /\ Len(out.coords) = Len(Handed(k)) - 1
              /\ ilr_table[k].coords = out.coords

\* C7: the table holds exactly one row per group, in groupby order, and each
\* row holds exactly the first four coordinates of the transform: all m - 1
\* of them when m = 5, and for m > 5 the coordinates after the fourth are
\* dropped.  (A group of m < 5 parts ends the loop with IndexError and no
\* table is built.)
C7_FirstFour ==
  pc = "ilr_done"
    => /\ Len(ilr_table) = Len(GroupKeys(comp_df))
       /\ \A k \in 1..Len(ilr_table) :
            /\ <<ilr_table[k].Species, ilr_table[k].Cortex>> = GroupKeys(comp_df)[k]
            /\ Len(Handed(k)) >= 5
            /\ \E out \in ilr(Handed(k)) :
                 /\ out.error = "none"
                 /\ ilr_table[k].coords = SubSeq(out.coords, 1, 4)
                 /\ Len(Handed(k)) = 5 => ilr_table[k].coords = out.coords

C7_Witness ==
  /\ pc = "ilr_done"
  /\ Len(ilr_table) = 2
  /\ Len(Handed(1)) = 6
  /\ Len(Handed(2)) = 5
  /\ ilr_table[1].coords[4].finite
  /\ ilr_table[2].coords[4].finite

(***************************************************************************)
(* The bootstrap's claims, under SpecBoot.                                 *)
(***************************************************************************)

\* The statistics of one column that are not NaN.
OwnStatistics(col) == Pick(col, {r \in 1..Len(col) : ~col[r].nan}, 1)

\* A layer of the table has no row of species sp.
Lacks(l, sp) ==
  ~\E i \in 1..Len(comp_df) : comp_df[i].Layer = l /\ comp_df[i].Species = sp

BothLabelsEverywhere ==
  \A i \in 1..Len(comp_df) :
    ~Lacks(comp_df[i].Layer, "Ms") /\ ~Lacks(comp_df[i].Layer, "FTD")

\* C4 as stated, for a table whose every layer has rows of both species: the
\* statistics aggregated for a layer are that layer's own statistics that
\* are not NaN, whatever a resample of another layer came to.
C4_Claim ==
  (pc = "aggregated" /\ BothLabelsEverywhere)
    => \A c \in 1..Len(results) : results_df[c] = OwnStatistics(results[c])

\* C5 as stated: when a layer has no 'Ms' row or no 'FTD' row, the call of
\* calc_log_ratio on it raises, and no summary is reported.
C5_Claim ==
  (layer # "none" /\ (Lacks(layer, "Ms") \/ Lacks(layer, "FTD")))
    => /\ raised # "none"
       /\ pc # "aggregated"
       /\ summary = <<>>

\* The rows of comp_df in the layer the loop is at.
StratumIndex == {i \in 1..Len(comp_df) : comp_df[i].Layer = layer}

ResampleOfStratum ==
  layer # "none"
    => /\ Len(boot_data) = Cardinality(StratumIndex)
       /\ \A j \in 1..Len(boot_data) :
            /\ boot_data[j].idx \in StratumIndex
            /\ boot_data[j].Layer = layer
            /\ boot_data[j].Species = comp_df[boot_data[j].idx].Species
            /\ boot_data[j].prop_cells_reg = prop_cells_reg[boot_data[j].idx]

\* C8: every resample has as many rows as its layer has in the table, every
\* resampled row is a row of that layer, and no step of the bootstrap
\* changes the table.
C8_Resample ==
  [][pc = "adjusted"
       => /\ ResampleOfStratum'
          /\ comp_df' = comp_df
          /\ prop_cells_reg' = prop_cells_reg]_vars

C8_Witness ==
  /\ layer = "L2"
  /\ Len(boot_data) = 3
  /\ boot_data[1] = boot_data[2]
  /\ boot_data[3] # boot_data[1]
  /\ Len(comp_df) = 5

====
